---------------------------- MODULE Spec2Model ----------------------------
(***************************************************************************)
(* A model of the AgenticEDA Streamlit application (src/app.py) and of its *)
(* helper modules src/utils/cleaning.py, src/utils/eda.py, src/utils/llm.py.*)
(*                                                                         *)
(* Two specifications are given over one set of variables:                 *)
(*   Spec     the app: user actions on the widgets, each of which makes    *)
(*            Streamlit execute the script src/app.py from its first line  *)
(*            to its last; the script is modelled step by step (pc).       *)
(*   SpecLib  the two functions of src/utils/cleaning.py called in any     *)
(*            order, any number of times, on one DataFrame and one log.    *)
(*                                                                         *)
(* pandas is modelled as pandas 1.x/2.x behaves (no copy-on-write, object  *)
(* dtype for text columns): the idioms of the source (chained inplace      *)
(* fillna, select_dtypes(['object'])) are those of that line of releases.  *)
(***************************************************************************)
EXTENDS Integers, Sequences, FiniteSets, TLC

VARIABLES
    pc,             \* position of the script run ("idle": waiting for the user)
    uploaded_file,  \* st.sidebar.file_uploader: NoFile or a CSV file
    cb_impute,      \* st.checkbox("Impute Missing Values")
    cb_drop,        \* st.checkbox("Drop Duplicate Rows")
    triggered,      \* history: the checked cleaning checkboxes, in the order the user checked them
    pressed,        \* the st.button that is True in the current run ("none": no button)
    env,            \* os.environ: the set of environment variables that are set
    llm_code,       \* st.session_state.llm_code
    df,             \* main's local df (NoDf before ingestion)
    transformation_log,  \* the module global of app.py line 10
    advice,         \* outcome of the advisory call of the current run (NoAdvice if none)
    error,          \* the st.error shown by the current run ("none" if none)
    exported,       \* the artifact the current run wrote under export/ (NoExport if none)
    halt,           \* the step at which the current run raised ("none" if it has not)
    calls           \* SpecLib: number of cleaning calls made so far

vars == <<pc, uploaded_file, cb_impute, cb_drop, triggered, pressed, env,
          llm_code, df, transformation_log, advice, error, exported, halt, calls>>

-----------------------------------------------------------------------------
(* Bounds of the model. *)

\* largest number of rows of a DataFrame handed to the cleaning functions (SpecLib)
MaxRows == 3
\* largest number of data rows of a CSV file uploaded to the app (Spec)
MaxUploadRows == 2
\* largest number of cleaning calls in a behaviour of SpecLib
MaxCalls == 3

-----------------------------------------------------------------------------
(* Generic helpers. *)

Range(s) == {s[i] : i \in 1..Len(s)}

IsPrefix(s, t) == Len(s) <= Len(t) /\ SubSeq(t, 1, Len(s)) = s

RECURSIVE GCD(_, _)
GCD(a, b) == IF b = 0 THEN a ELSE GCD(b, a % b)

\* a rational number n/d in lowest terms, d > 0, as the cell <<"num", n, d>>
Rat(n, d) == LET g == GCD(IF n < 0 THEN -n ELSE n, d)
             IN  IF g = 0 THEN <<"num", 0, 1>> ELSE <<"num", n \div g, d \div g>>


-----------------------------------------------------------------------------
(* Column names.  A name is a sequence of characters so that the test      *)
(* 'date' in col.lower() of app.py line 68 is computed, not looked up.     *)

UpperCase == <<"A", "B", "C", "D", "E", "F", "G", "H", "I", "J", "K", "L", "M",
               "N", "O", "P", "Q", "R", "S", "T", "U", "V", "W", "X", "Y", "Z">>
LowerCase == <<"a", "b", "c", "d", "e", "f", "g", "h", "i", "j", "k", "l", "m",
               "n", "o", "p", "q", "r", "s", "t", "u", "v", "w", "x", "y", "z">>

\* str.lower() on one character
LowerChar(c) ==
    IF \E i \in 1..Len(UpperCase) : UpperCase[i] = c
    THEN LowerCase[CHOOSE i \in 1..Len(UpperCase) : UpperCase[i] = c]
    ELSE c

\* str.lower()
Lower(name) == [i \in 1..Len(name) |-> LowerChar(name[i])]

\* the Python test  sub in s
Contains(s, sub) ==
    \E i \in 0..(Len(s) - Len(sub)) : SubSeq(s, i + 1, i + Len(sub)) = sub

\* app.py line 68: 'date' in col.lower()
IsDateName(name) == Contains(Lower(name), <<"d", "a", "t", "e">>)

NameValue == <<"v", "a", "l", "u", "e">>
NameDateCreated == <<"D", "a", "t", "e", "_", "c", "r", "e", "a", "t", "e", "d">>
NameNote == <<"n", "o", "t", "e">>

-----------------------------------------------------------------------------
(* Uploaded CSV files: a header of column names and rows of text fields.   *)
(* "" is an empty field.                                                   *)

\* the header rows of the uploaded files: one with a date-like column name, one without
Headers == { <<NameValue, NameDateCreated>>, <<NameValue, NameNote>> }

\* the fields a row may hold, per column position
FieldsOf(j) == IF j = 1 THEN {"", "1", "3"} ELSE {"", "2024-01-01"}

CsvRows == {<<a, b>> : a \in FieldsOf(1), b \in FieldsOf(2)}

NoFile == [header |-> <<>>, rows |-> <<>>, uploaded |-> FALSE]

\* a zero-byte upload: pd.read_csv raises EmptyDataError on it
EmptyFile == [header |-> <<>>, rows |-> <<>>, uploaded |-> TRUE]

\* the well-formed files of at most n data rows
DataFiles(n) ==
    {[header |-> h, rows |-> r, uploaded |-> TRUE] :
        h \in Headers, r \in UNION {[1..k -> CsvRows] : k \in 1..n}}

\* the files a user may upload
Files == DataFiles(MaxUploadRows) \cup {EmptyFile}

-----------------------------------------------------------------------------
(* pandas.read_csv and the DataFrame.                                      *)
(* A cell is <<"nan">> (NaN, None or NaT: isnull() is True), a number      *)
(* <<"num", n, d>> (the rational n/d), a string <<"str", s>> or a          *)
(* timestamp <<"dt", s>>.  A DataFrame is its column names, their dtypes   *)
(* and its rows.                                                           *)

NaN == <<"nan">>

IsNull(cell) == cell[1] = "nan"

IsNumberField(f) == f \in {"1", "3"}

IsDateField(f) == f = "2024-01-01"

\* the number a numeric field denotes
ParseNumber(f) == IF f = "1" THEN 1 ELSE 3

\* the fields of column j of a file, top to bottom
FileColumn(file, j) == [i \in 1..Len(file.rows) |-> file.rows[i][j]]

\* read_csv's type inference for one column: numeric when every field that is
\* not empty is a number (an all-empty column is float64, all NaN); a date
\* column (parse_dates) becomes datetime64[ns] when every field that is not
\* empty parses as a date; anything else is an object column
InferDtype(fields, parse_date) ==
    IF parse_date /\ \A i \in 1..Len(fields) : fields[i] = "" \/ IsDateField(fields[i])
        THEN "datetime64[ns]"
    ELSE IF \A i \in 1..Len(fields) : fields[i] = "" \/ IsNumberField(fields[i])
        THEN "number"
    ELSE "object"

\* one field read under a column dtype: an empty field is missing
ReadField(f, dtype) ==
    IF f = "" THEN NaN
    ELSE CASE dtype = "number" -> <<"num", ParseNumber(f), 1>>
           [] dtype = "datetime64[ns]" -> <<"dt", f>>
           [] OTHER -> <<"str", f>>

NoDf == [cols |-> <<>>, dtypes |-> <<>>, rows |-> <<>>, loaded |-> FALSE]

\* pd.read_csv(uploaded_file, low_memory=False, parse_dates=date_columns)
ReadCsv(file, date_columns) ==
    LET n  == Len(file.header)
        dt == [j \in 1..n |->
                 InferDtype(FileColumn(file, j), file.header[j] \in date_columns)]
    IN  [cols   |-> file.header,
         dtypes |-> dt,
         rows   |-> [i \in 1..Len(file.rows) |->
                        [j \in 1..n |-> ReadField(file.rows[i][j], dt[j])]],
         loaded |-> TRUE]

\* a faulty conversion: a missing cell stays missing
AsTypeStr_KeepsMissing(cell) == cell

\* Series.astype(str) on one cell of an object column: a missing cell becomes
\* the text 'nan', a string stays as it is
AsTypeStr(cell) == IF IsNull(cell) THEN <<"str", "nan">> ELSE cell

\* app.py lines 80-82: every object column that is not a date column is
\* converted with astype(str)
CoerceObjectColumns(d, date_columns) ==
    [d EXCEPT !.rows =
        [i \in 1..Len(d.rows) |->
            [j \in 1..Len(d.cols) |->
                IF d.dtypes[j] = "object" /\ d.cols[j] \notin date_columns
                THEN AsTypeStr(d.rows[i][j])
                ELSE d.rows[i][j]]]]

\* app.py line 68
DateColumns(cols) == {cols[j] : j \in {k \in 1..Len(cols) : IsDateName(cols[k])}}

\* app.py lines 62-82 on a file read_csv accepts
Ingest(file) ==
    LET first == ReadCsv(file, {})
        date_columns == DateColumns(first.cols)
    IN  CoerceObjectColumns(ReadCsv(file, date_columns), date_columns)

\* df[col].isnull().sum()
NullCount(d, j) == Cardinality({i \in 1..Len(d.rows) : IsNull(d.rows[i][j])})

\* df.shape
Shape(d) == <<Len(d.rows), Len(d.cols)>>

-----------------------------------------------------------------------------
(* src/utils/cleaning.py.  A log entry stands for the text the code        *)
(* formats: <<"fillna", col>> for the fillna line naming col, and          *)
(* <<"drop_duplicates", before, after>> for the drop_duplicates line       *)
(* naming the two shapes.                                                  *)

\* df.select_dtypes(include=['number']).columns, as column positions
NumericCols(d) == {j \in 1..Len(d.cols) : d.dtypes[j] = "number"}

\* the sum, as <<numerator, denominator>>, of the non-missing cells of column j
\* in rows 1..k
RECURSIVE ColumnSum(_, _, _)
ColumnSum(d, j, k) ==
    IF k = 0 THEN <<0, 1>>
    ELSE LET rest == ColumnSum(d, j, k - 1)
             cell == d.rows[k][j]
         IN  IF IsNull(cell) THEN rest
             ELSE <<rest[1] * cell[3] + cell[2] * rest[2], rest[2] * cell[3]>>

\* a faulty mean: the sum divided by the number of rows, missing ones included
ColumnMean_CountsMissing(d, j) ==
    LET total == ColumnSum(d, j, Len(d.rows))
    IN  IF NullCount(d, j) = Len(d.rows) THEN NaN ELSE Rat(total[1], total[2] * Len(d.rows))

\* df[col].mean(): the mean of the non-missing cells, NaN when there is none
ColumnMean(d, j) ==
    LET count == Len(d.rows) - NullCount(d, j)
        total == ColumnSum(d, j, Len(d.rows))
    IN  IF count = 0 THEN NaN ELSE Rat(total[1], total[2] * count)

\* Series.fillna(value) on one cell; fillna(NaN) leaves a missing cell missing
FillNa(cell, value) == IF IsNull(cell) THEN value ELSE cell

\* cleaning.py line 10: the numeric columns with at least one missing value
ColsToImpute(d) == {j \in NumericCols(d) : NullCount(d, j) > 0}

\* a faulty loop: fillna works on a copy of the column and the frame keeps
\* its missing values
ImputedFrame_NoWriteBack(d) == d

\* cleaning.py lines 9-11: the frame after the loop; the columns are
\* independent, so the loop is one map over the cells
ImputedFrame(d) ==
    [d EXCEPT !.rows =
        [i \in 1..Len(d.rows) |->
            [j \in 1..Len(d.cols) |->
                IF j \in ColsToImpute(d)
                THEN FillNa(d.rows[i][j], ColumnMean(d, j))
                ELSE d.rows[i][j]]]]

\* a faulty loop: the append is outside the loop and runs once per call
ImputeEntries_OnePerCall(d, k) == << <<"fillna", d.cols[k]>> >>

\* cleaning.py lines 12-14: the entries the loop appends for columns 1..k,
\* in column order
RECURSIVE ImputeEntries(_, _)
ImputeEntries(d, k) ==
    IF k = 0 THEN <<>>
    ELSE IF k \in ColsToImpute(d)
         THEN Append(ImputeEntries(d, k - 1), <<"fillna", d.cols[k]>>)
         ELSE ImputeEntries(d, k - 1)

\* cleaning.impute_missing_values(df, transformation_log): the frame it
\* returns (the one it was given, mutated) and the log it leaves
impute_missing_values(d, l) ==
    [df |-> ImputedFrame(d), transformation_log |-> l \o ImputeEntries(d, Len(d.cols))]

\* a faulty removal: only the last row that repeats an earlier row is removed
DropDuplicateRows_OnePerCall(rows) ==
    LET dups == {i \in 1..Len(rows) : \E j \in 1..(i - 1) : rows[j] = rows[i]}
    IN  IF dups = {} THEN rows
        ELSE LET m == CHOOSE i \in dups : \A k \in dups : k <= i
             IN  [i \in 1..(Len(rows) - 1) |-> IF i < m THEN rows[i] ELSE rows[i + 1]]

\* DataFrame.drop_duplicates(): a row equal to an earlier row is removed,
\* the first occurrence and the order of the kept rows are preserved
RECURSIVE DropDuplicateRows(_)
DropDuplicateRows(rows) ==
    IF rows = <<>> THEN <<>>
    ELSE LET front == SubSeq(rows, 1, Len(rows) - 1)
             last  == rows[Len(rows)]
         IN  IF last \in Range(front)
             THEN DropDuplicateRows(front)
             ELSE Append(DropDuplicateRows(front), last)

\* cleaning.py lines 24-26: the entry drop_duplicates appends
DropEntry(before, after) == <<"drop_duplicates", Shape(before), Shape(after)>>

\* a faulty log: the entry replaces the log instead of being appended
drop_duplicates_Overwrites(d, l) ==
    LET after == [d EXCEPT !.rows = DropDuplicateRows(d.rows)]
    IN  [df |-> after, transformation_log |-> <<DropEntry(d, after)>>]

\* cleaning.drop_duplicates(df, transformation_log)
drop_duplicates(d, l) ==
    LET after == [d EXCEPT !.rows = DropDuplicateRows(d.rows)]
    IN  [df |-> after, transformation_log |-> Append(l, DropEntry(d, after))]

-----------------------------------------------------------------------------
(* src/utils/eda.py: check_ml_readiness.                                   *)

MLTasks == {"Decision Tree", "Self-supervised Learning", "Other"}

\* f"{pct*100:.1f}" for pct = n/rows, in tenths of a percent
PercentTenths(n, rows) == (2000 * n + rows) \div (2 * rows)

\* eda.py lines 54-56, for columns 1..k
RECURSIVE MissingMessages(_, _)
MissingMessages(d, k) ==
    IF k = 0 THEN <<>>
    ELSE IF NullCount(d, k) > 0
         THEN Append(MissingMessages(d, k - 1),
                     <<"missing", d.cols[k], PercentTenths(NullCount(d, k), Len(d.rows))>>)
         ELSE MissingMessages(d, k - 1)

\* eda.py lines 59-63, for columns 1..k
RECURSIVE DtypeMessages(_, _)
DtypeMessages(d, k) ==
    IF k = 0 THEN <<>>
    ELSE LET rest == DtypeMessages(d, k - 1)
         IN  CASE d.dtypes[k] = "object" -> Append(rest, <<"encoding", d.cols[k]>>)
               [] d.dtypes[k] = "datetime64[ns]" -> Append(rest, <<"datetime", d.cols[k]>>)
               [] OTHER -> rest

\* eda.py lines 66-69
TaskMessages(ml_task) ==
    CASE ml_task = "Decision Tree" -> << <<"decision_tree">> >>
      [] ml_task = "Self-supervised Learning" -> << <<"self_supervised">> >>
      [] OTHER -> <<>>

check_ml_readiness(d, ml_task) ==
    MissingMessages(d, Len(d.cols)) \o DtypeMessages(d, Len(d.cols)) \o TaskMessages(ml_task)

-----------------------------------------------------------------------------
(* src/utils/llm.py.  A call ends in <<"return", text>> or                 *)
(* <<"raise", exception>>; called tells whether the external service was   *)
(* contacted.                                                              *)

\* the process environments: no credential configured, or the credential
\* configured under the name the docstring and the returned message give
Environments == { {}, {"OPENAI_API_KEY"} }

\* attributes of Python's os module that the source uses or could have meant;
\* os has getenv, it has no get_env
OsAttributes == {"getenv", "environ", "path", "makedirs", "getcwd"}

NotSetMessage == "OpenAI API key not set. Please set the OPENAI_API_KEY environment variable."

\* what the external service may do with a request
ServiceOutcomes == {"answers", "fails"}

\* the body shared by get_cleaning_suggestions (lines 9-33) and
\* get_additional_checks (lines 40-66): attr is the attribute of os that is
\* called, name the variable asked for, failure the prefix of the error text
Advisory(attr, name, e, service, failure) ==
    IF attr \notin OsAttributes
    THEN [outcome |-> <<"raise", "AttributeError">>, called |-> FALSE]
    ELSE IF name \notin e
    THEN [outcome |-> <<"return", NotSetMessage>>, called |-> FALSE]
    ELSE IF service = "answers"
    THEN [outcome |-> <<"return", "llm text">>, called |-> TRUE]
    ELSE [outcome |-> <<"return", failure>>, called |-> TRUE]

\* llm.get_cleaning_suggestions under environment e
get_cleaning_suggestions(e, service) ==
    Advisory("get_env", "OPEN_AI_KEY", e, service, "Error fetching LLM suggestions")

\* llm.get_additional_checks under environment e
get_additional_checks(e, service) ==
    Advisory("get_env", "OPEN_AI_KEY", e, service, "Error fetching additional checks")

NoAdvice == [outcome |-> <<"none", "">>, called |-> FALSE]

-----------------------------------------------------------------------------
(* src/app.py: the script.  Streamlit executes the file from its first     *)
(* line to its last once per user interaction (upload, checkbox, button);  *)
(* widget values and st.session_state outlive a run, module globals and    *)
(* main's locals do not.  A button is True only in the run its press       *)
(* started.  A widget the run did not reach is not on the page: the user   *)
(* cannot act on it, and Streamlit forgets its value.                      *)

\* a faulty order: the drop block before the impute block
ScriptOrder_DropFirst ==
    <<"ingest", "suggest", "drop", "impute", "recheck", "additional",
      "runcode", "export_csv", "export_script", "export_report">>

\* the blocks of main's try body (lines 60-168), in source order
ScriptOrder == <<"ingest", "suggest", "impute", "drop", "recheck", "additional",
                 "runcode", "export_csv", "export_script", "export_report">>

StepIndex(s) == CHOOSE i \in 1..Len(ScriptOrder) : ScriptOrder[i] = s

\* the block after block s; "idle" after the last one (main returns)
NextStep(s) ==
    IF StepIndex(s) = Len(ScriptOrder) THEN "idle" ELSE ScriptOrder[StepIndex(s) + 1]

Buttons == {"suggest", "additional", "runcode", "export_csv", "export_script", "export_report"}

\* the widget created in block w is on the page left by the last run
Rendered(w) ==
    \/ halt = "none"
    \/ halt \in Range(ScriptOrder) /\ StepIndex(w) <= StepIndex(halt)

NoCode == <<"none", "">>

NoExport == <<"none">>

\* export_transformation_script lines 16-29: the lines of the script after
\* its fixed heading, each log entry indented inside the function
script_lines(l) ==
    <<"def transform_data(df):">> \o [i \in 1..Len(l) |-> <<"    ", l[i]>>] \o <<"    return df">>

\* triggered without the checkbox w
Unchecked(w) == SelectSeq(triggered, LAMBDA x : x # w)

Init ==
    /\ pc = "idle"
    /\ uploaded_file = NoFile
    /\ cb_impute = FALSE
    /\ cb_drop = FALSE
    /\ triggered = <<>>
    /\ pressed = "none"
    /\ env \in Environments
    /\ llm_code = NoCode
    /\ df = NoDf
    /\ transformation_log = <<>>
    /\ advice = NoAdvice
    /\ error = "none"
    /\ exported = NoExport
    /\ halt = "nofile"
    /\ calls = 0

(* ---- the start and the end of a run ---- *)

\* the run ends in block s, before the two checkboxes are created, or after
EndsEarly(s) ==
    /\ pc' = "idle"
    /\ halt' = s
    /\ IF s = "nofile" \/ StepIndex(s) < StepIndex("impute")
       THEN cb_impute' = FALSE /\ cb_drop' = FALSE /\ triggered' = <<>>
       ELSE UNCHANGED <<cb_impute, cb_drop, triggered>>

\* lines 170-172: an exception raised in block s of the try body is caught,
\* reported as a CSV reading error, and main returns
Raises(s) == error' = "Error reading the CSV file" /\ EndsEarly(s)

\* block s ends normally
Continues(s) ==
    /\ pc' = NextStep(s)
    /\ UNCHANGED <<cb_impute, cb_drop, triggered, halt>>

\* lines 1-59, run by Streamlit when a widget changes: the module body up to
\* main's test of uploaded_file.  The module global transformation_log is
\* bound to a new empty list (line 10), main's locals of the last run are
\* gone, st.session_state.llm_code is kept (lines 55-56)
StartRun ==
    /\ transformation_log' = <<>>
    /\ df' = NoDf
    /\ advice' = NoAdvice
    /\ error' = "none"
    /\ exported' = NoExport
    /\ UNCHANGED <<env, llm_code, calls>>

(* ---- user actions: each one starts a run of the script ---- *)

\* st.sidebar.file_uploader (line 51): the user uploads a file
Upload ==
    /\ pc = "idle"
    /\ \E f \in Files : f # uploaded_file /\ uploaded_file' = f
    /\ pressed' = "none"
    /\ StartRun
    /\ pc' = "ingest"
    /\ halt' = "none"
    /\ UNCHANGED <<cb_impute, cb_drop, triggered>>

\* st.sidebar.file_uploader (line 51): the user removes the uploaded file;
\* the run finds uploaded_file None (line 59) and creates no other widget
RemoveFile ==
    /\ pc = "idle"
    /\ uploaded_file # NoFile
    /\ uploaded_file' = NoFile
    /\ pressed' = "none"
    /\ StartRun
    /\ EndsEarly("nofile")

\* st.checkbox("Impute Missing Values") (line 108): the user toggles it
ToggleImpute ==
    /\ pc = "idle"
    /\ Rendered("impute")
    /\ cb_impute' = ~cb_impute
    /\ triggered' = IF cb_impute THEN Unchecked("impute") ELSE Append(triggered, "impute")
    /\ pressed' = "none"
    /\ StartRun
    /\ pc' = "ingest"
    /\ halt' = "none"
    /\ UNCHANGED <<uploaded_file, cb_drop>>

\* st.checkbox("Drop Duplicate Rows") (line 112): the user toggles it
ToggleDrop ==
    /\ pc = "idle"
    /\ Rendered("drop")
    /\ cb_drop' = ~cb_drop
    /\ triggered' = IF cb_drop THEN Unchecked("drop") ELSE Append(triggered, "drop")
    /\ pressed' = "none"
    /\ StartRun
    /\ pc' = "ingest"
    /\ halt' = "none"
    /\ UNCHANGED <<uploaded_file, cb_impute>>

\* st.button(...) (lines 101, 134, 139, 157, 162, 166): the user presses one
Press ==
    /\ pc = "idle"
    /\ \E b \in Buttons : Rendered(b) /\ pressed' = b
    /\ StartRun
    /\ pc' = "ingest"
    /\ halt' = "none"
    /\ UNCHANGED <<uploaded_file, cb_impute, cb_drop, triggered>>

(* ---- the blocks of the run ---- *)

\* lines 60-98: read the CSV, coerce the text columns, show the first EDA
IngestStep ==
    /\ pc = "ingest"
    /\ IF uploaded_file = EmptyFile
       THEN Raises("ingest") /\ UNCHANGED df
       ELSE df' = Ingest(uploaded_file) /\ Continues("ingest") /\ UNCHANGED error
    /\ UNCHANGED <<uploaded_file, pressed, env, llm_code, transformation_log, advice, exported, calls>>

\* lines 100-104
SuggestStep ==
    /\ pc = "suggest"
    /\ IF pressed = "suggest"
       THEN \E service \in ServiceOutcomes :
                LET r == get_cleaning_suggestions(env, service)
                IN  /\ advice' = r
                    /\ IF r.outcome[1] = "raise"
                       THEN Raises("suggest")
                       ELSE Continues("suggest") /\ UNCHANGED error
       ELSE Continues("suggest") /\ UNCHANGED <<advice, error>>
    /\ UNCHANGED <<uploaded_file, pressed, env, llm_code, df, transformation_log, exported, calls>>

\* lines 106-110
ImputeStep ==
    /\ pc = "impute"
    /\ IF cb_impute
       THEN LET r == impute_missing_values(df, transformation_log)
            IN  df' = r.df /\ transformation_log' = r.transformation_log
       ELSE UNCHANGED <<df, transformation_log>>
    /\ Continues("impute")
    /\ UNCHANGED <<uploaded_file, pressed, env, llm_code, advice, error, exported, calls>>

\* lines 111-114
DropStep ==
    /\ pc = "drop"
    /\ IF cb_drop
       THEN LET r == drop_duplicates(df, transformation_log)
            IN  df' = r.df /\ transformation_log' = r.transformation_log
       ELSE UNCHANGED <<df, transformation_log>>
    /\ Continues("drop")
    /\ UNCHANGED <<uploaded_file, pressed, env, llm_code, advice, error, exported, calls>>

\* lines 116-130: the cleaned preview, the updated EDA and readiness check
RecheckStep ==
    /\ pc = "recheck"
    /\ Continues("recheck")
    /\ UNCHANGED <<uploaded_file, pressed, env, llm_code, df, transformation_log, advice, error,
                   exported, calls>>

\* lines 132-137
AdditionalStep ==
    /\ pc = "additional"
    /\ IF pressed = "additional"
       THEN \E service \in ServiceOutcomes :
                LET r == get_additional_checks(env, service)
                IN  /\ advice' = r
                    /\ IF r.outcome[1] = "raise"
                       THEN Raises("additional") /\ UNCHANGED llm_code
                       ELSE /\ llm_code' = <<"code", r.outcome[2]>>
                            /\ Continues("additional")
                            /\ UNCHANGED error
       ELSE Continues("additional") /\ UNCHANGED <<advice, error, llm_code>>
    /\ UNCHANGED <<uploaded_file, pressed, env, df, transformation_log, exported, calls>>

\* lines 139-153: exec of the stored text; its own try reports every failure.
\* Text the service wrote may do anything to df; here it leaves df alone or
\* empties it.  Any other stored text is no Python and fails to compile
RunCodeStep ==
    /\ pc = "runcode"
    /\ IF pressed # "runcode"
       THEN UNCHANGED <<df, error>>
       ELSE IF llm_code = NoCode
       THEN error' = "No additional checks code available" /\ UNCHANGED df
       ELSE IF llm_code[2] = "llm text"
       THEN \E runs \in BOOLEAN :
                IF runs
                THEN UNCHANGED error /\ df' \in {df, [df EXCEPT !.rows = <<>>]}
                ELSE error' = "Error executing the additional checks code" /\ UNCHANGED df
       ELSE error' = "Error executing the additional checks code" /\ UNCHANGED df
    /\ Continues("runcode")
    /\ UNCHANGED <<uploaded_file, pressed, env, llm_code, transformation_log, advice, exported, calls>>

\* lines 157-160: df.to_csv writes the frame; a write error is an exception
ExportCsvStep ==
    /\ pc = "export_csv"
    /\ IF pressed = "export_csv"
       THEN \E written \in BOOLEAN :
                IF written
                THEN exported' = <<"csv", df>> /\ Continues("export_csv") /\ UNCHANGED error
                ELSE Raises("export_csv") /\ UNCHANGED exported
       ELSE Continues("export_csv") /\ UNCHANGED <<exported, error>>
    /\ UNCHANGED <<uploaded_file, pressed, env, llm_code, df, transformation_log, advice, calls>>

\* a faulty export: the loop over the log consumes it
ExportScriptStep_DrainsLog ==
    /\ pc = "export_script"
    /\ IF pressed = "export_script"
       THEN /\ exported' = <<"script", script_lines(transformation_log)>>
            /\ transformation_log' = <<>>
            /\ Continues("export_script")
            /\ UNCHANGED error
       ELSE Continues("export_script") /\ UNCHANGED <<exported, error, transformation_log>>
    /\ UNCHANGED <<uploaded_file, pressed, env, llm_code, df, advice, calls>>

\* lines 162-164 and export_transformation_script (lines 12-34)
ExportScriptStep ==
    /\ pc = "export_script"
    /\ IF pressed = "export_script"
       THEN \E written \in BOOLEAN :
                IF written
                THEN /\ exported' = <<"script", script_lines(transformation_log)>>
                     /\ Continues("export_script")
                     /\ UNCHANGED error
                ELSE Raises("export_script") /\ UNCHANGED exported
       ELSE Continues("export_script") /\ UNCHANGED <<exported, error>>
    /\ UNCHANGED <<uploaded_file, pressed, env, llm_code, df, transformation_log, advice, calls>>

\* lines 166-168, export_eda_report (lines 36-44) and eda.generate_eda_report:
\* the report is rendered from df's statistics and the log; a missing
\* template or a write error is an exception
ExportReportStep ==
    /\ pc = "export_report"
    /\ IF pressed = "export_report"
       THEN \E written \in BOOLEAN :
                IF written
                THEN /\ exported' = <<"report", df, transformation_log>>
                     /\ Continues("export_report")
                     /\ UNCHANGED error
                ELSE Raises("export_report") /\ UNCHANGED exported
       ELSE Continues("export_report") /\ UNCHANGED <<exported, error>>
    /\ UNCHANGED <<uploaded_file, pressed, env, llm_code, df, transformation_log, advice, calls>>

Next ==
    \/ Upload
    \/ RemoveFile
    \/ ToggleImpute
    \/ ToggleDrop
    \/ Press
    \/ IngestStep
    \/ SuggestStep
    \/ ImputeStep
    \/ DropStep
    \/ RecheckStep
    \/ AdditionalStep
    \/ RunCodeStep
    \/ ExportCsvStep
    \/ ExportScriptStep
    \/ ExportReportStep

Spec == Init /\ [][Next]_vars

-----------------------------------------------------------------------------
(* SpecLib: the functions of src/utils/cleaning.py called directly, in any *)
(* order, on one DataFrame and one log list.  pc names the last call.      *)

InitLib ==
    /\ pc = "lib"
    /\ uploaded_file = NoFile
    /\ cb_impute = FALSE
    /\ cb_drop = FALSE
    /\ triggered = <<>>
    /\ pressed = "none"
    /\ env = {}
    /\ llm_code = NoCode
    /\ df \in {Ingest(f) : f \in DataFiles(MaxRows)}
    /\ transformation_log = <<>>
    /\ advice = NoAdvice
    /\ error = "none"
    /\ exported = NoExport
    /\ halt = "none"
    /\ calls = 0

\* df = cleaning.impute_missing_values(df, transformation_log)
CallImpute ==
    /\ pc \in {"lib", "imputed", "dropped"}
    /\ calls < MaxCalls
    /\ LET r == impute_missing_values(df, transformation_log)
       IN  df' = r.df /\ transformation_log' = r.transformation_log
    /\ pc' = "imputed"
    /\ calls' = calls + 1
    /\ UNCHANGED <<uploaded_file, cb_impute, cb_drop, triggered, pressed, env,
                   llm_code, advice, error, exported, halt>>

\* df = cleaning.drop_duplicates(df, transformation_log)
CallDrop ==
    /\ pc \in {"lib", "imputed", "dropped"}
    /\ calls < MaxCalls
    /\ LET r == drop_duplicates(df, transformation_log)
       IN  df' = r.df /\ transformation_log' = r.transformation_log
    /\ pc' = "dropped"
    /\ calls' = calls + 1
    /\ UNCHANGED <<uploaded_file, cb_impute, cb_drop, triggered, pressed, env,
                   llm_code, advice, error, exported, halt>>

NextLib == CallImpute \/ CallDrop

SpecLib == InitLib /\ [][NextLib]_vars

-----------------------------------------------------------------------------
(* Properties.                                                             *)

\* the numeric columns of d that hold at least one missing value
NumericWithMissing(d) ==
    {j \in 1..Len(d.cols) :
        d.dtypes[j] = "number" /\ \E i \in 1..Len(d.rows) : d.rows[i][j] = NaN}

\* the fillna entries of the numeric columns 1..k of d whose cells are all missing
RECURSIVE AllMissingEntries(_, _)
AllMissingEntries(d, k) ==
    IF k = 0 THEN <<>>
    ELSE IF d.dtypes[k] = "number" /\ \A i \in 1..Len(d.rows) : d.rows[i][k] = NaN
         THEN Append(AllMissingEntries(d, k - 1), <<"fillna", d.cols[k]>>)
         ELSE AllMissingEntries(d, k - 1)

\* cell is the number sum/count, for sum = <<numerator, denominator>>
IsQuotient(cell, sum, count) ==
    cell[1] = "num" /\ cell[2] * sum[2] * count = sum[1] * cell[3]

\* C1 as claimed: every call of a cleaning function makes the log longer by
\* exactly one entry, appended after the earlier entries.
C1_Original ==
    [][/\ IsPrefix(transformation_log, transformation_log')
       /\ Len(transformation_log') = Len(transformation_log) + 1]_vars

\* C1 as amended: every call of a cleaning function keeps the earlier entries
\* as a prefix of the log; drop_duplicates appends exactly one entry, and
\* impute_missing_values appends one entry per numeric column that holds a
\* missing value (none when there is no such column, two when there are two).
C1_LogGrowth ==
    [][/\ IsPrefix(transformation_log, transformation_log')
       /\ pc' = "dropped" => Len(transformation_log') = Len(transformation_log) + 1
       /\ pc' = "imputed" =>
             Len(transformation_log') =
                 Len(transformation_log) + Cardinality(NumericWithMissing(df))]_vars

\* one impute call on two numeric columns with missing values, then one drop
C1_Witness ==
    /\ pc = "dropped" /\ calls = 2 /\ Len(transformation_log) = 3
    /\ transformation_log[1][1] = "fillna" /\ transformation_log[2][1] = "fillna"

\* C4: after impute_missing_values, a numeric column that had a value that was
\* not missing has no missing cell; each cell that was missing holds the mean
\* of the cells that were not, and those keep their values.
C4_ImputeFillsMean ==
    [][pc' = "imputed" =>
        \A j \in 1..Len(df.cols) :
            LET present == {i \in 1..Len(df.rows) : df.rows[i][j] # NaN}
            IN  (df.dtypes[j] = "number" /\ present # {}) =>
                    \A i \in 1..Len(df.rows) :
                        IF i \in present
                        THEN df'.rows[i][j] = df.rows[i][j]
                        ELSE IsQuotient(df'.rows[i][j],
                                        ColumnSum(df, j, Len(df.rows)),
                                        Cardinality(present))]_vars

\* the first call was an impute that filled a cell with the mean 2 of 1 and 3
C4_Witness ==
    /\ pc = "imputed" /\ calls = 1
    /\ \E i \in 1..Len(df.rows) : df.rows[i][1] = <<"num", 2, 1>>

\* C5 as claimed: an impute call right after an impute call leaves the frame
\* unchanged and appends no log entry.
C5_Original ==
    [][(pc = "imputed" /\ pc' = "imputed") =>
        (df' = df /\ transformation_log' = transformation_log)]_vars

\* C5 as amended: an impute call right after an impute call leaves the frame
\* unchanged; it appends one entry for each numeric column whose cells are
\* all missing, and no entry when there is no such column.
C5_SecondImpute ==
    [][(pc = "imputed" /\ pc' = "imputed") =>
        /\ df' = df
        /\ transformation_log' =
               transformation_log \o AllMissingEntries(df, Len(df.cols))]_vars

\* two impute calls in a row: the first filled column value, the second
\* appended nothing
C5_Witness ==
    /\ pc = "imputed" /\ calls = 2
    /\ transformation_log = << <<"fillna", NameValue>> >>
    /\ \E i \in 1..Len(df.rows) : df.rows[i][1] = <<"num", 2, 1>>

\* C6: a drop_duplicates call right after a drop_duplicates call leaves the
\* rows and their order unchanged and appends one entry, whose shape before
\* and shape after are both the shape of the frame.
C6_DropIdempotent ==
    [][(pc = "dropped" /\ pc' = "dropped") =>
        /\ df' = df
        /\ transformation_log' =
               Append(transformation_log, <<"drop_duplicates", Shape(df), Shape(df)>>)]_vars

\* two drop calls in a row: the first removed a row, the second none
C6_Witness ==
    /\ pc = "dropped" /\ calls = 2 /\ Len(transformation_log) = 2
    /\ transformation_log[1][1] = "drop_duplicates"
    /\ transformation_log[1][2] # transformation_log[1][3]
    /\ transformation_log[2] = <<"drop_duplicates", Shape(df), Shape(df)>>

-----------------------------------------------------------------------------
(* Properties of the app.                                                  *)

\* the run is past the drop block (or ended past it)
PastCleaning ==
    LET at == IF pc = "idle" THEN halt ELSE pc
    IN  \/ pc = "idle" /\ halt = "none"
        \/ at \in Range(ScriptOrder) /\ StepIndex(at) > StepIndex("drop")

\* the number of empty fields of column j of the uploaded file
EmptyFields(file, j) == Cardinality({i \in 1..Len(file.rows) : file.rows[i][j] = ""})

\* C2 as claimed: with no credential configured, an advisory call returns the
\* fixed "not set" message, does not contact the service and does not raise.
C2_Original ==
    (advice # NoAdvice /\ env = {}) =>
        advice = [outcome |-> <<"return", NotSetMessage>>, called |-> FALSE]

\* C3 as claimed: when an advisory button is pressed and the call does not
\* get an answer from the service, the call returns a string and the run goes
\* on to the next block.
C3_Original ==
    [][(pc \in {"suggest", "additional"} /\ pressed = pc
            /\ advice'.outcome # <<"return", "llm text">>) =>
        (advice'.outcome[1] = "return" /\ pc' = NextStep(pc) /\ error' = "none")]_vars

\* C7: an export block leaves the frame and the log as they were.
C7_ExportsKeepState ==
    [][(pc \in {"export_csv", "export_script", "export_report"}) =>
        (df' = df /\ transformation_log' = transformation_log)]_vars

\* a script was written from a log of three entries, the frame being loaded
C7_Witness ==
    /\ pc = "idle" /\ exported # NoExport /\ exported[1] = "script"
    /\ Len(transformation_log) = 3 /\ df.loaded

\* C8 as claimed: the log before any step is a prefix of the log after it.
C8_Original ==
    [][IsPrefix(transformation_log, transformation_log')]_vars

\* C8 as amended: inside a run the log before a block is a prefix of the log
\* after it; a user action starts a new run, whose log is empty.
C8_AppendOnlyWithinRun ==
    [][IF pc = "idle"
       THEN transformation_log' = <<>>
       ELSE IsPrefix(transformation_log, transformation_log')]_vars

\* a run that has appended the drop entry after two impute entries
C8_Witness ==
    /\ pc = "recheck" /\ Len(transformation_log) = 3
    /\ transformation_log[1][1] = "fillna" /\ transformation_log[3][1] = "drop_duplicates"

\* C9 as claimed: the log lists the entries of the two operations in the
\* order in which the user triggered them (here: drop first, impute second).
C9_Original ==
    (PastCleaning /\ triggered = <<"drop", "impute">>) =>
        \A i, j \in 1..Len(transformation_log) :
            (/\ transformation_log[i][1] = "drop_duplicates"
             /\ transformation_log[j][1] = "fillna") => i < j

\* C9 as amended: whatever the order of the user's ticks, the log of a run
\* holds the impute entries (no column twice) and then at most one drop
\* entry; past the cleaning blocks the drop entry is there exactly when the
\* drop checkbox is ticked, and impute entries only when the impute checkbox is.
C9_FixedOrder ==
    /\ \A i \in 1..(Len(transformation_log) - 1) : transformation_log[i][1] = "fillna"
    /\ \A i, j \in 1..Len(transformation_log) :
          transformation_log[i] = transformation_log[j] => i = j
    /\ PastCleaning =>
          /\ cb_drop <=> (\E i \in 1..Len(transformation_log) :
                              transformation_log[i][1] = "drop_duplicates")
          /\ ~cb_impute => (\A i \in 1..Len(transformation_log) :
                               transformation_log[i][1] # "fillna")

\* the user ticked drop, then impute; the run logged impute, then drop
C9_Witness ==
    /\ pc = "idle" /\ triggered = <<"drop", "impute">>
    /\ Len(transformation_log) = 3
    /\ transformation_log[1][1] = "fillna"
    /\ transformation_log[3][1] = "drop_duplicates"

\* C10: after ingestion a text column whose name is not date-like has no
\* missing cell and the readiness check gives no missing-values message for
\* it, for any ML task; a numeric or date-like column has as many missing
\* cells as the file has empty fields in it.
C10_TextColumnsNeverMissing ==
    pc = "suggest" =>
        \A j \in 1..Len(df.cols) :
            IF df.dtypes[j] = "object" /\ ~IsDateName(df.cols[j])
            THEN /\ \A i \in 1..Len(df.rows) : df.rows[i][j] # NaN
                 /\ \A t \in MLTasks :
                       \A m \in Range(check_ml_readiness(df, t)) :
                           ~(m[1] = "missing" /\ m[2] = df.cols[j])
            ELSE /\ NullCount(df, j) = EmptyFields(uploaded_file, j)
                 /\ NullCount(df, j) > 0 =>
                       \A t \in MLTasks :
                           \E m \in Range(check_ml_readiness(df, t)) :
                               m[1] = "missing" /\ m[2] = df.cols[j]

\* just after ingestion: a text column that had an empty field, beside a
\* numeric column that keeps its missing cell
C10_Witness ==
    /\ pc = "suggest"
    /\ df.dtypes[2] = "object" /\ ~IsDateName(df.cols[2])
    /\ EmptyFields(uploaded_file, 2) > 0
    /\ df.dtypes[1] = "number" /\ NullCount(df, 1) > 0

=============================================================================
